---- MODULE Spec2Model ----
(***************************************************************************)
(* pdf2html: the conversion job of the page script (src/unnamed/part_000). *)
(*                                                                         *)
(* Text is modelled as a sequence of lexemes.  Every reasoning tag, every  *)
(* fence marker and every run of white space is one lexeme, and "p", "q"   *)
(* stand for runs of ordinary characters.  The regular expressions of the  *)
(* source are evaluated lexeme by lexeme, left to right, as the JavaScript *)
(* engine evaluates them character by character.                           *)
(***************************************************************************)
EXTENDS Integers, Sequences, FiniteSets, TLC

\* Longest cumulative buffer to which the reducer specification still appends.
MaxLen == 3

\* ------------------------------------------------------------------------
\* Lexemes
\* ------------------------------------------------------------------------

\* Opening and closing reasoning tags as the source spells them.
ThinkingOpen == "<thinking>"
ThinkingClose == "</thinking>"
ThinkOpen == "<think>"
ThinkClose == "</think>"

\* The fence markers of /```html([\s\S]*?)```/ (a TLA+ string cannot hold a
\* backtick: an apostrophe is written for each).
FenceOpen == "'''html"
FenceClose == "'''"

\* A run of white space (what \s matches and String.prototype.trim removes).
WS == " "

\* The lexemes the reducer specification draws deltas from; the tags in
\* capitals stand for every spelling only the /i flag matches.
Tokens == {ThinkingOpen, ThinkingClose, ThinkOpen, ThinkClose, "<THINKING>", "</THINKING>", "<THINK>", "</THINK>", FenceOpen, FenceClose, WS, "p"}

\* What the /i flag makes of a lexeme: its lower-case spelling.
Lower(t) ==
    CASE t = "<THINKING>" -> ThinkingOpen
      [] t = "</THINKING>" -> ThinkingClose
      [] t = "<THINK>" -> ThinkOpen
      [] t = "</THINK>" -> ThinkClose
      [] OTHER -> t

\* Whether lexeme t matches tag under a regular expression with (ci) or
\* without the /i flag.
Matches(t, tag, ci) == IF ci THEN Lower(t) = tag ELSE t = tag

\* ------------------------------------------------------------------------
\* The reducer's string operations.  A derived string is kept as the
\* sequence of positions of the source string s it is made of, so that the
\* text and its provenance are both known; TextAt gives the text.
\* ------------------------------------------------------------------------

Positions(s) == [k \in 1..Len(s) |-> k]

TextAt(s, idx) == [k \in 1..Len(idx) |-> s[idx[k]]]

\* Smallest k >= from with s[idx[k]] matching tag, 0 when there is none.
FirstMatch(s, idx, from, tag, ci) ==
    LET hits == {k \in from..Len(idx) : Matches(s[idx[k]], tag, ci)}
    IN IF hits = {} THEN 0 ELSE CHOOSE k \in hits : \A m \in hits : k <= m

\* String.prototype.includes(tag): case-sensitive substring test.
Includes(s, tag) == \E k \in 1..Len(s) : s[k] = tag

\* str.replace(/<open>[\s\S]*?(<close>|$)/gi, '') when toEnd, and
\* str.replace(/<open>[\s\S]*?<close>/gi, '') otherwise: every match, found
\* left to right, is deleted; a match starts at an opening tag and runs
\* lazily to the first closing tag after it, or, when toEnd, to the end of
\* the string if no closing tag follows.
RECURSIVE RemoveSpans(_, _, _, _, _)
RemoveSpans(s, idx, open, close, toEnd) ==
    IF idx = <<>> THEN <<>>
    ELSE IF Matches(s[Head(idx)], open, TRUE)
         THEN LET j == FirstMatch(s, idx, 2, close, TRUE)
              IN IF j # 0 THEN RemoveSpans(s, SubSeq(idx, j + 1, Len(idx)), open, close, toEnd)
                 ELSE IF toEnd THEN <<>>
                 ELSE <<Head(idx)>> \o RemoveSpans(s, Tail(idx), open, close, toEnd)
         ELSE <<Head(idx)>> \o RemoveSpans(s, Tail(idx), open, close, toEnd)

\* Whether a lexeme begins with three backticks, so that the closing ``` of
\* the fence expression matches at it.
StartsFence(t) == t = FenceClose \/ t = FenceOpen

\* A fence match that runs to the last closing fence instead of the first.
CodeMatchGreedy(s, idx) ==
    LET i == FirstMatch(s, idx, 1, FenceOpen, FALSE)
        later == IF i = 0 THEN {} ELSE {k \in (i + 1)..Len(idx) : StartsFence(s[idx[k]])}
    IN IF later = {} THEN <<0, 0>>
       ELSE <<i, CHOOSE k \in later : \A m \in later : k >= m>>

\* html.match(/```html([\s\S]*?)```/): the positions <<i, j>> of the opening
\* marker and of the first ``` after it, <<0, 0>> when there is no match.
CodeMatch(s, idx) ==
    LET i == FirstMatch(s, idx, 1, FenceOpen, FALSE)
        later == IF i = 0 THEN {} ELSE {k \in (i + 1)..Len(idx) : StartsFence(s[idx[k]])}
    IN IF later = {} THEN <<0, 0>>
       ELSE <<i, CHOOSE k \in later : \A m \in later : k <= m>>

\* String.prototype.trim.
RECURSIVE TrimStart(_, _)
TrimStart(s, idx) ==
    IF idx # <<>> /\ s[Head(idx)] = WS THEN TrimStart(s, Tail(idx)) ELSE idx

RECURSIVE TrimEnd(_, _)
TrimEnd(s, idx) ==
    IF idx # <<>> /\ s[idx[Len(idx)]] = WS THEN TrimEnd(s, SubSeq(idx, 1, Len(idx) - 1)) ELSE idx

Trim(s, idx) == TrimEnd(s, TrimStart(s, idx))

\* A removal that applies the <thinking> expression alone.
WithoutThinkingOnly(s, toEnd) ==
    RemoveSpans(s, Positions(s), ThinkingOpen, ThinkingClose, toEnd)

\* s without its reasoning spans: the <thinking> expression is applied
\* first, the <think> expression to what it leaves.
WithoutReasoning(s, toEnd) ==
    RemoveSpans(s, RemoveSpans(s, Positions(s), ThinkingOpen, ThinkingClose, toEnd), ThinkOpen, ThinkClose, toEnd)

\* if (codeMatch) html = codeMatch[1].trim(); ... html.trim()
FencedOrAll(s, idx) ==
    LET codeMatch == CodeMatch(s, idx)
        html == IF codeMatch[1] # 0
                THEN Trim(s, SubSeq(idx, codeMatch[1] + 1, codeMatch[2] - 1))
                ELSE idx
    IN Trim(s, html)

\* The HTML payload of s: the reasoning spans removed, then the interior of
\* the html fence if there is one, trimmed.
ExtractHtml(s, toEnd) == FencedOrAll(s, WithoutReasoning(s, toEnd))

\* fullContent.match(/<open>([\s\S]*?)(<close>|$)/)[1]: the positions of the
\* text between the first opening tag and the first closing tag after it, or
\* the end of the string (no /i flag: the tags are matched as spelled).
FirstSpanInterior(s, open, close) ==
    LET i == FirstMatch(s, Positions(s), 1, open, FALSE)
        j == IF i = 0 THEN 0 ELSE FirstMatch(s, Positions(s), i + 1, close, FALSE)
    IN IF i = 0 THEN <<>>
       ELSE IF j = 0 THEN SubSeq(Positions(s), i + 1, Len(s))
       ELSE SubSeq(Positions(s), i + 1, j - 1)

\* An excerpt taken from the span of whichever opening tag comes first.
ThinkingPositionsEarliest(s) ==
    LET i == FirstMatch(s, Positions(s), 1, ThinkingOpen, FALSE)
        j == FirstMatch(s, Positions(s), 1, ThinkOpen, FALSE)
    IN IF i # 0 /\ (j = 0 \/ i < j) THEN FirstSpanInterior(s, ThinkingOpen, ThinkingClose)
       ELSE IF j # 0 THEN FirstSpanInterior(s, ThinkOpen, ThinkClose)
       ELSE <<>>

\* thinkingContent of the chunk observer.
ThinkingPositions(s) ==
    IF Includes(s, ThinkingOpen) THEN FirstSpanInterior(s, ThinkingOpen, ThinkingClose)
    ELSE IF Includes(s, ThinkOpen) THEN FirstSpanInterior(s, ThinkOpen, ThinkClose)
    ELSE <<>>

\* The text of the chunk observer's thinkingContent.
ThinkingContent(fullContent) == TextAt(fullContent, ThinkingPositions(fullContent))

\* The chunk observers' htmlContent.trim(): both expressions end in |$.
HtmlContentPositions(fullContent) == ExtractHtml(fullContent, TRUE)

HtmlContent(fullContent) == TextAt(fullContent, HtmlContentPositions(fullContent))

\* The html of the result generateHtmlFromImages returns, streaming or not:
\* its expressions end in |$ as the observers' do.
HtmlFromImages(content) == TextAt(content, ExtractHtml(content, TRUE))

\* The html of the result generateHtmlFromText returns, streaming or not:
\* its expressions require the closing tag.
HtmlFromText(content) == TextAt(content, ExtractHtml(content, FALSE))

\* ------------------------------------------------------------------------
\* The response stream.  What reader.read() delivers is a sequence of wire
\* symbols: whole frames and the newlines that end them.
\* ------------------------------------------------------------------------

\* No model id, no usage record.
None == ""

\* A data line whose JSON parses: ch tells its choices ("none": no such key,
\* "empty": an empty array, "delta": choices[0].delta with the content c),
\* m is its model and u its usage.
Frame(ch, c, m, u) == [kind |-> "data", choices |-> ch, content |-> c, model |-> m, usage |-> u]

NL == [kind |-> "nl", choices |-> "none", content |-> <<>>, model |-> None, usage |-> None]

\* data: {"choices":[{"delta":{"content": c}}]}
Data(c) == Frame("delta", c, None, None)

\* data: [DONE]
Done == [kind |-> "done", choices |-> "none", content |-> <<>>, model |-> None, usage |-> None]

\* data: followed by text that JSON.parse rejects.
Bad == [kind |-> "bad", choices |-> "none", content |-> <<>>, model |-> None, usage |-> None]

\* buffer.split('\n'): the pieces between the newlines, the last one (what
\* follows the last newline) included.
RECURSIVE SplitLines(_, _, _)
SplitLines(data, cur, lines) ==
    IF data = <<>> THEN Append(lines, cur)
    ELSE IF Head(data) = NL THEN SplitLines(Tail(data), <<>>, Append(lines, cur))
    ELSE SplitLines(Tail(data), Append(cur, Head(data)), lines)

\* The text of a data line cut in two somewhere inside it: what a read
\* delivers when the line is not all in one chunk of the body.
FrameStart(f) == [f EXCEPT !.kind = "data-start"]

FrameEnd(f) == [f EXCEPT !.kind = "data-end"]

\* The text of a line as buffer += decoder.decode(value, { stream: true })
\* has put it together: the two parts of a data line, one after the other,
\* are that data line.
Whole(line) ==
    IF Len(line) = 2 /\ line[1].kind = "data-start" /\ line[2] = FrameEnd(line[1])
    THEN <<[line[1] EXCEPT !.kind = "data"]>>
    ELSE line

\* The content delta a line carries, <<>> when it carries none: the line has
\* to start with "data: ", not to be [DONE], to parse as JSON (a frame with
\* anything after it on the same line does not) and to hold a non-empty
\* choices[0].delta.content.
LineContent(line) ==
    LET l == Whole(line)
    IN IF Len(l) = 1 /\ l[1].kind = "data" /\ l[1].choices = "delta" THEN l[1].content ELSE <<>>

\* The line parses and the statements after JSON.parse run to the end of the
\* try block: parsed.choices[0].delta throws on an empty choices array, and
\* the catch of the frame swallows it.
LineRuns(line) ==
    LET l == Whole(line)
    IN Len(l) = 1 /\ l[1].kind = "data" /\ l[1].choices # "empty"

\* parsed.model and parsed.usage of a line that reaches their tests.
LineModel(line) == IF LineRuns(line) THEN Whole(line)[1].model ELSE None

LineUsage(line) == IF LineRuns(line) THEN Whole(line)[1].usage ELSE None

\* ------------------------------------------------------------------------
\* Errors
\* ------------------------------------------------------------------------

NoError == [name |-> "none", message |-> <<>>]

\* What an aborted fetch or an aborted read rejects with.
AbortError == [name |-> "AbortError", message |-> <<"The user aborted a request.">>]

\* A transport failure of fetch or of a read of the body.
NetworkError == [name |-> "TypeError", message |-> <<"Failed to fetch">>]

\* new Error(`APIエラー: ${response.status} ${response.statusText}`)
ApiError == [name |-> "Error", message |-> <<"API error: status statusText">>]

\* A response body that is not JSON, or holds no choices[0].message.content.
BodyError == [name |-> "SyntaxError", message |-> <<"Unexpected token">>]

\* The free identifier headers of the completion functions, unbound.
ReferenceError == [name |-> "ReferenceError", message |-> <<"headers is not defined">>]

\* new Error(`PDFテキスト抽出エラー: ...`) and new Error(`PDF画像変換エラー: ...`)
ExtractionError == [name |-> "Error", message |-> <<"PDF extraction error: ", "cause">>]

\* The catch of the completion functions:
\* throw new Error(`HTML生成エラー: ${error.message}`).
WrapError(error) == [name |-> "Error", message |-> <<"HTML generation error: ">> \o error.message]

\* '処理が中断されました'
CancelMessage == <<"processing was interrupted">>

\* The catch around the streaming call: an AbortError becomes the cancel
\* message, anything else is thrown on as it is.
StreamingCatch(error) ==
    IF error.name = "AbortError" THEN [name |-> "Error", message |-> CancelMessage] ELSE error

\* alert('PDFファイルを選択してください。')
NoFileMessage == <<"select a PDF file">>

NoAlert == <<>>

\* ------------------------------------------------------------------------
\* Bounds and input sets
\* ------------------------------------------------------------------------

\* Most wire symbols one response stream delivers.
MaxWire == 4

\* Most wire symbols one read delivers.
MaxRead == 2

\* The lexemes the job specification draws completion text from.
StreamTokens == {ThinkingOpen, "p"}

SeqsUpTo(S, n) == UNION {[1..k -> S] : k \in 1..n}

\* The completion texts a single-shot response body is drawn from.
BodyContents == {<<"p">>, <<ThinkingOpen, "p">>, <<ThinkingOpen, "p", ThinkingClose, "p">>}

\* The single-shot response bodies: data.choices[0].message.content,
\* data.model and data.usage.
Bodies == {[text |-> t, model |-> "m1", usage |-> "u1"] : t \in BodyContents}

\* The wire symbols of the job specification: one content frame per lexeme,
\* the terminator, a malformed frame and the newline.
WireSymbols == {Data(<<t>>) : t \in StreamTokens} \cup {Done, Bad, NL}

\* ------------------------------------------------------------------------
\* The request.  An endpoint and a credential are sequences of lexemes: a
\* scheme prefix, a run of white space, or a run of other characters.
\* ------------------------------------------------------------------------

\* value.trim()
TrimText(t) == TextAt(t, Trim(t, Positions(t)))

\* 'http://127.0.0.1:1234'
DefaultUrl == <<"http://", "127.0.0.1:1234">>

\* let apiUrl = apiUrlInput.value.trim() || DefaultUrl, with https:// put in
\* front unless it starts with http:// or https:// as spelled here.
ApiUrl(value) ==
    LET url == IF TrimText(value) = <<>> THEN DefaultUrl ELSE TrimText(value)
    IN IF url[1] \in {"http://", "https://"} THEN url ELSE <<"https://">> \o url

\* `${apiUrl}/v1/chat/completions`
CompletionsUrl(url) == url \o <<"/v1/chat/completions">>

\* 'Content-Type': 'application/json'
ContentTypeJson == <<"Content-Type", <<"application/json">>>>

\* 'Authorization': `Bearer ${apiToken}`
Bearer(apiToken) == <<"Authorization", <<"Bearer ">> \o apiToken>>

\* const headers = { ... }; if (apiToken) headers['Authorization'] = ...
JobHeaders(value) ==
    {ContentTypeJson} \cup (IF TrimText(value) # <<>> THEN {Bearer(TrimText(value))} ELSE {})

\* No fetch has been called.
NoRequest == [url |-> <<>>, headers |-> {}]

\* The header lists fetch can derive from what the global scope binds
\* headers to, when it binds it.
GlobalHeaders == {{}, {ContentTypeJson}}

\* Longest endpoint and longest credential typed into the page, in lexemes.
MaxUrl == 2

MaxToken == 2

UrlInputs == {<<>>} \cup SeqsUpTo({"http://", "https://", "HTTP://", WS, "h"}, MaxUrl)

TokenInputs == {<<>>} \cup SeqsUpTo({WS, "t"}, MaxToken)

\* ------------------------------------------------------------------------
\* The document.  A PDF is the sequence of its pages; a page decodes or
\* not, and its items are the strings of its text content, each a sequence
\* of characters: "x" is a character that is not white space.
\* ------------------------------------------------------------------------

\* pdfInput.files[0] is undefined.
NoFile == <<>>

\* The characters \s matches and trim() strips.
Space == {" ", "\n", "\t"}

Page(items) == [decodes |-> TRUE, items |-> items]

\* A page whose getPage, getTextContent or render rejects.
BrokenPage == [decodes |-> FALSE, items |-> <<>>]

\* A one-page document without text.
BlankPdf == <<Page(<<>>)>>

\* textContent.items.map(item => item.str).join(' ')
RECURSIVE Join(_)
Join(items) ==
    IF items = <<>> THEN <<>>
    ELSE IF Len(items) = 1 THEN items[1]
    ELSE items[1] \o <<" ">> \o Join(Tail(items))

\* text.replace(/[class]+/g, ' '): every maximal run of characters of class
\* becomes one space.
RECURSIVE ReplaceRuns(_, _)
ReplaceRuns(t, class) ==
    IF t = <<>> THEN <<>>
    ELSE IF Head(t) \notin class THEN <<Head(t)>> \o ReplaceRuns(Tail(t), class)
    ELSE IF Len(t) > 1 /\ t[2] \in class THEN ReplaceRuns(Tail(t), class)
    ELSE <<" ">> \o ReplaceRuns(Tail(t), class)

\* String.prototype.trim on characters.
RECURSIVE TrimSpace(_)
TrimSpace(t) ==
    IF t = <<>> THEN <<>>
    ELSE IF Head(t) \in Space THEN TrimSpace(Tail(t))
    ELSE IF t[Len(t)] \in Space THEN TrimSpace(SubSeq(t, 1, Len(t) - 1))
    ELSE t

\* A clean-up that does not trim.
CleanUpUntrimmed(t) == ReplaceRuns(ReplaceRuns(t, {"\n"}), Space)

\* text.replace(/\n+/g, ' ').replace(/\s+/g, ' ').trim()
CleanUp(t) == TrimSpace(ReplaceRuns(ReplaceRuns(t, {"\n"}), Space))

\* canvas.toDataURL('image/png') of the canvas page number i was rendered to.
Image(i, page) == [page |-> i, items |-> page.items]

\* ------------------------------------------------------------------------
\* The export
\* ------------------------------------------------------------------------

\* Nothing has been offered for download.
NoBlob == [type |-> "", name |-> "", content |-> <<>>]

\* new Blob([html], { type: 'text/html' }) behind a link whose download
\* attribute is 'converted.html'.
Download(html) == [type |-> "text/html", name |-> "converted.html", content |-> html]

\* ------------------------------------------------------------------------
\* State
\* ------------------------------------------------------------------------

VARIABLES
    pc,                      \* where the click handler of processBtn is suspended
    isVision,                \* visionToggle.checked, read when the job starts
    isStreaming,             \* streamingToggle.checked, read when the job starts
    headersBound,            \* whether the global scope binds the name headers
    processBtnDisabled,      \* processBtn.disabled
    stopBtnShown,            \* stopBtn.style.display is not 'none'
    streamingContainerShown, \* streamingContainer.style.display is not 'none'
    previewContainerShown,   \* previewContainer.style.display is not 'none'
    downloadBtnShown,        \* downloadBtn.style.display is not 'none'
    shadowRoot,              \* shadowRoot.innerHTML
    streamingOutput,         \* streamingOutput.textContent
    generatedHtml,           \* generatedHtml
    abortController,         \* abortController is not null
    aborted,                 \* the signal is aborted and the rejection is queued
    hasReasoning,            \* hasReasoning of the running handler
    buffer,                  \* buffer of the streaming read loop
    fullContent,             \* fullContent of the read loop, or the content of
                             \* the single-shot body; kept until the next job
    wire,                    \* history: every symbol the stream delivered
    calls,                   \* history: the chunk observer's invocations
    htmlContent,             \* history: htmlContent.trim() of the last invocation
    alertMsg,                \* history: the message of the handler's alert
    lastError,               \* history: what the completion call threw
    stoppedAt,               \* history: Len(calls) when stop aborted, else -1
    model,                   \* model of the streaming read loop
    usage,                   \* usage of the streaming read loop
    processingInfo,          \* processingInfo: the model and usage of the last result
    apiUrlInput,             \* apiUrlInput.value
    apiTokenInput,           \* apiTokenInput.value
    apiUrl,                  \* apiUrl of the running handler
    headers,                 \* headers of the running handler
    globalHeaders,           \* the header list fetch derives from the global
                             \* headers, if bound (empty unless the request
                             \* specification draws it)
    request,                 \* history: the url and headers the job's fetch was called with
    pdf,                     \* the pages of the file of the running handler
    pageNo,                  \* i of the page loop of the extraction
    text,                    \* text of extractTextFromPDF
    images,                  \* images of convertPDFToImages, then of the handler
    extractedTextContent,    \* extractedTextContent
    fetches,                 \* history: the calls of fetch the job has made
    jobAlerts,               \* history: the alerts the job's handler has shown
    blob,                    \* history: the file the last event offered for
                             \* download, NoBlob when it was not an export
    stopIgnored              \* history: the last event was a click on stopBtn
                             \* that found no abortController

vars == <<pc, isVision, isStreaming, headersBound, processBtnDisabled, stopBtnShown, streamingContainerShown, previewContainerShown, downloadBtnShown, shadowRoot, streamingOutput, generatedHtml, abortController, aborted, hasReasoning, buffer, fullContent, wire, calls, htmlContent, alertMsg, lastError, stoppedAt, model, usage, processingInfo, apiUrlInput, apiTokenInput, apiUrl, headers, globalHeaders, request, pdf, pageNo, text, images, extractedTextContent, fetches, jobAlerts, blob, stopIgnored>>

\* The variables the chunk observer reads and writes.
observerVars == <<hasReasoning, streamingOutput, shadowRoot, previewContainerShown, htmlContent>>

\* The page after DOMContentLoaded: nothing generated, no job.
Init ==
    /\ pc = "idle"
    /\ isVision = FALSE
    /\ isStreaming = FALSE
    /\ headersBound \in BOOLEAN
    /\ processBtnDisabled = FALSE
    /\ stopBtnShown = FALSE
    /\ streamingContainerShown = FALSE
    /\ previewContainerShown = FALSE
    /\ downloadBtnShown = FALSE
    /\ shadowRoot = <<>>
    /\ streamingOutput = <<>>
    /\ generatedHtml = <<>>
    /\ abortController = FALSE
    /\ aborted = FALSE
    /\ hasReasoning = FALSE
    /\ buffer = <<>>
    /\ fullContent = <<>>
    /\ wire = <<>>
    /\ calls = <<>>
    /\ htmlContent = <<>>
    /\ alertMsg = NoAlert
    /\ lastError = NoError
    /\ stoppedAt = -1
    /\ model = None
    /\ usage = None
    /\ processingInfo = [model |-> None, usage |-> None]
    /\ apiUrlInput = <<>>
    /\ apiTokenInput = <<>>
    /\ apiUrl = <<>>
    /\ headers = {}
    /\ globalHeaders = {}
    /\ request = NoRequest
    /\ pdf = NoFile
    /\ pageNo = 1
    /\ text = <<>>
    /\ images = <<>>
    /\ extractedTextContent = <<>>
    /\ fetches = 0
    /\ jobAlerts = 0
    /\ blob = NoBlob
    /\ stopIgnored = FALSE

\* ------------------------------------------------------------------------
\* The chunk observer (the image-mode and the text-mode callbacks are the
\* same code) and the frame loop that calls it
\* ------------------------------------------------------------------------

\* The observer's view of the page.
Observed == [hasReasoning |-> hasReasoning, streamingOutput |-> streamingOutput, shadowRoot |-> shadowRoot, previewContainerShown |-> previewContainerShown, htmlContent |-> htmlContent]

\* An observer that adds each excerpt to the one already shown.
OnChunkAccumulating(o, chunk, full) ==
    LET html == HtmlContent(full)
    IN [hasReasoning |-> o.hasReasoning \/ Includes(full, ThinkingOpen) \/ Includes(full, ThinkOpen),
        streamingOutput |-> o.streamingOutput \o ThinkingContent(full),
        shadowRoot |-> IF html # <<>> THEN html ELSE o.shadowRoot,
        previewContainerShown |-> IF html # <<>> THEN TRUE ELSE o.previewContainerShown,
        htmlContent |-> html]

\* An observer that assigns the flag from the delta instead of latching it.
OnChunkUnlatched(o, chunk, full) ==
    LET html == HtmlContent(full)
    IN [hasReasoning |-> Includes(chunk, ThinkingOpen) \/ Includes(chunk, ThinkOpen),
        streamingOutput |-> ThinkingContent(full),
        shadowRoot |-> IF html # <<>> THEN html ELSE o.shadowRoot,
        previewContainerShown |-> IF html # <<>> THEN TRUE ELSE o.previewContainerShown,
        htmlContent |-> html]

\* An observer that renders every payload, the empty one too.
OnChunkAlwaysRenders(o, chunk, full) ==
    LET html == HtmlContent(full)
    IN [hasReasoning |-> o.hasReasoning \/ Includes(full, ThinkingOpen) \/ Includes(full, ThinkOpen),
        streamingOutput |-> ThinkingContent(full),
        shadowRoot |-> html,
        previewContainerShown |-> TRUE,
        htmlContent |-> html]

\* (chunk, fullContent) => { ... }: o is the page before the call.
OnChunk(o, chunk, full) ==
    LET html == HtmlContent(full)
    IN [hasReasoning |-> o.hasReasoning \/ Includes(full, ThinkingOpen) \/ Includes(full, ThinkOpen),
        streamingOutput |-> ThinkingContent(full),
        shadowRoot |-> IF html # <<>> THEN html ELSE o.shadowRoot,
        previewContainerShown |-> IF html # <<>> THEN TRUE ELSE o.previewContainerShown,
        htmlContent |-> html]

\* A frame loop in which a line that does not parse empties the buffer.
ProcessLineOrReset(st, line) ==
    LET content == LineContent(line)
        full == st.fullContent \o content
        seen == IF content = <<>> THEN st
                ELSE [st EXCEPT !.fullContent = full,
                                !.page = OnChunk(st.page, content, full),
                                !.calls = Append(st.calls, [chunk |-> content, fullContent |-> full])]
    IN IF line = <<Bad>> THEN [st EXCEPT !.fullContent = <<>>]
       ELSE [seen EXCEPT !.model = IF LineModel(line) # None THEN LineModel(line) ELSE @,
                         !.usage = IF LineUsage(line) # None THEN LineUsage(line) ELSE @]

\* A frame loop that puts each delta in front of the buffer.
ProcessLinePrepend(st, line) ==
    LET content == LineContent(line)
        full == content \o st.fullContent
        seen == IF content = <<>> THEN st
                ELSE [st EXCEPT !.fullContent = full,
                                !.page = OnChunk(st.page, content, full),
                                !.calls = Append(st.calls, [chunk |-> content, fullContent |-> full])]
    IN [seen EXCEPT !.model = IF LineModel(line) # None THEN LineModel(line) ELSE @,
                    !.usage = IF LineUsage(line) # None THEN LineUsage(line) ELSE @]

\* One turn of for (const line of lines): st holds the loop's fullContent,
\* model and usage, the observer's page and the log of its invocations.
ProcessLine(st, line) ==
    LET content == LineContent(line)
        full == st.fullContent \o content
        seen == IF content = <<>> THEN st
                ELSE [st EXCEPT !.fullContent = full,
                                !.page = OnChunk(st.page, content, full),
                                !.calls = Append(st.calls, [chunk |-> content, fullContent |-> full])]
    IN [seen EXCEPT !.model = IF LineModel(line) # None THEN LineModel(line) ELSE @,
                    !.usage = IF LineUsage(line) # None THEN LineUsage(line) ELSE @]

RECURSIVE ProcessLines(_, _)
ProcessLines(st, lines) ==
    IF lines = <<>> THEN st ELSE ProcessLines(ProcessLine(st, Head(lines)), Tail(lines))

\* ------------------------------------------------------------------------
\* The handlers.  A handler runs to its next await in one step; a task (a
\* click, a network event) is dispatched only when no promise reaction is
\* queued, which here is the rejection an abort has queued (aborted).
\* ------------------------------------------------------------------------

\* A step that is neither an export nor a stop click without a controller
\* clears the history of the last event.
OtherEvent == blob' = NoBlob /\ stopIgnored' = FALSE

\* A catch without the finally block: the trigger stays disabled.
TopLevelCatchNoFinally(error) ==
    /\ alertMsg' = IF error.message # CancelMessage THEN error.message ELSE alertMsg
    /\ UNCHANGED processBtnDisabled
    /\ abortController' = FALSE
    /\ stopBtnShown' = FALSE
    /\ pc' = "idle"
    /\ buffer' = <<>>
    /\ wire' = <<>>
    /\ calls' = <<>>
    /\ model' = None
    /\ usage' = None
    /\ jobAlerts' = IF error.message # CancelMessage THEN jobAlerts + 1 ELSE jobAlerts

\* catch (error) { hideStatus(); if (...) alert(error.message); } finally
\* { ... } of the click handler: the job ends, and with it the locals of the
\* completion call.
TopLevelCatch(error) ==
    /\ alertMsg' = IF error.message # CancelMessage THEN error.message ELSE alertMsg
    /\ processBtnDisabled' = FALSE
    /\ abortController' = FALSE
    /\ stopBtnShown' = FALSE
    /\ pc' = "idle"
    /\ buffer' = <<>>
    /\ wire' = <<>>
    /\ calls' = <<>>
    /\ model' = None
    /\ usage' = None
    /\ jobAlerts' = IF error.message # CancelMessage THEN jobAlerts + 1 ELSE jobAlerts

\* The completion call throws error to the click handler: the streaming
\* call's own catch first, then the handler's.
CompletionFails(error) ==
    /\ lastError' = error
    /\ TopLevelCatch(IF isStreaming THEN StreamingCatch(error) ELSE error)

\* A click handler whose reset leaves the preview as it is.
ProcessClickKeepsPreview(file, vision, streaming) ==
    /\ ~processBtnDisabled
    /\ ~aborted
    /\ IF file = NoFile
       THEN /\ alertMsg' = NoFileMessage
            /\ UNCHANGED <<pc, isVision, isStreaming, headersBound, processBtnDisabled, stopBtnShown, streamingContainerShown, previewContainerShown, downloadBtnShown, shadowRoot, streamingOutput, generatedHtml, abortController, aborted, hasReasoning, buffer, fullContent, wire, calls, htmlContent, lastError, stoppedAt, apiUrl, headers, request, pdf, pageNo, text, images, fetches, jobAlerts>>
       ELSE /\ streamingContainerShown' = FALSE
            /\ previewContainerShown' = FALSE
            /\ downloadBtnShown' = FALSE
            /\ streamingOutput' = <<>>
            /\ UNCHANGED shadowRoot
            /\ processBtnDisabled' = TRUE
            /\ isVision' = vision
            /\ isStreaming' = streaming
            /\ hasReasoning' = FALSE
            /\ apiUrl' = ApiUrl(apiUrlInput)
            /\ headers' = JobHeaders(apiTokenInput)
            /\ request' = NoRequest
            /\ pdf' = file
            /\ pageNo' = 1
            /\ text' = <<>>
            /\ images' = <<>>
            /\ pc' = "extracting"
            /\ buffer' = <<>>
            /\ fullContent' = <<>>
            /\ wire' = <<>>
            /\ calls' = <<>>
            /\ htmlContent' = <<>>
            /\ alertMsg' = NoAlert
            /\ lastError' = NoError
            /\ stoppedAt' = -1
            /\ fetches' = 0
            /\ jobAlerts' = 0
            /\ UNCHANGED <<headersBound, stopBtnShown, generatedHtml, abortController, aborted>>
    /\ UNCHANGED <<model, usage, processingInfo>>
    /\ UNCHANGED <<apiUrlInput, apiTokenInput, globalHeaders>>
    /\ UNCHANGED extractedTextContent
    /\ OtherEvent

\* A click handler whose reset leaves the download button as it is.
ProcessClickKeepsDownload(file, vision, streaming) ==
    /\ ~processBtnDisabled
    /\ ~aborted
    /\ IF file = NoFile
       THEN /\ alertMsg' = NoFileMessage
            /\ UNCHANGED <<pc, isVision, isStreaming, headersBound, processBtnDisabled, stopBtnShown, streamingContainerShown, previewContainerShown, downloadBtnShown, shadowRoot, streamingOutput, generatedHtml, abortController, aborted, hasReasoning, buffer, fullContent, wire, calls, htmlContent, lastError, stoppedAt, apiUrl, headers, request, pdf, pageNo, text, images, fetches, jobAlerts>>
       ELSE /\ streamingContainerShown' = FALSE
            /\ previewContainerShown' = FALSE
            /\ UNCHANGED downloadBtnShown
            /\ streamingOutput' = <<>>
            /\ shadowRoot' = <<>>
            /\ processBtnDisabled' = TRUE
            /\ isVision' = vision
            /\ isStreaming' = streaming
            /\ hasReasoning' = FALSE
            /\ apiUrl' = ApiUrl(apiUrlInput)
            /\ headers' = JobHeaders(apiTokenInput)
            /\ request' = NoRequest
            /\ pdf' = file
            /\ pageNo' = 1
            /\ text' = <<>>
            /\ images' = <<>>
            /\ pc' = "extracting"
            /\ buffer' = <<>>
            /\ fullContent' = <<>>
            /\ wire' = <<>>
            /\ calls' = <<>>
            /\ htmlContent' = <<>>
            /\ alertMsg' = NoAlert
            /\ lastError' = NoError
            /\ stoppedAt' = -1
            /\ fetches' = 0
            /\ jobAlerts' = 0
            /\ UNCHANGED <<headersBound, stopBtnShown, generatedHtml, abortController, aborted>>
    /\ UNCHANGED <<model, usage, processingInfo>>
    /\ UNCHANGED <<apiUrlInput, apiTokenInput, globalHeaders>>
    /\ UNCHANGED extractedTextContent
    /\ OtherEvent

\* processBtn is clicked with the PDF file chosen, or with none (NoFile).
ProcessClick(file, vision, streaming) ==
    /\ ~processBtnDisabled
    /\ ~aborted
    /\ IF file = NoFile
       THEN /\ alertMsg' = NoFileMessage
            /\ UNCHANGED <<pc, isVision, isStreaming, headersBound, processBtnDisabled, stopBtnShown, streamingContainerShown, previewContainerShown, downloadBtnShown, shadowRoot, streamingOutput, generatedHtml, abortController, aborted, hasReasoning, buffer, fullContent, wire, calls, htmlContent, lastError, stoppedAt, apiUrl, headers, request, pdf, pageNo, text, images, fetches, jobAlerts>>
       ELSE /\ streamingContainerShown' = FALSE
            /\ previewContainerShown' = FALSE
            /\ downloadBtnShown' = FALSE
            /\ streamingOutput' = <<>>
            /\ shadowRoot' = <<>>
            /\ processBtnDisabled' = TRUE
            /\ isVision' = vision
            /\ isStreaming' = streaming
            /\ hasReasoning' = FALSE
            /\ apiUrl' = ApiUrl(apiUrlInput)
            /\ headers' = JobHeaders(apiTokenInput)
            /\ request' = NoRequest
            /\ pdf' = file
            /\ pageNo' = 1
            /\ text' = <<>>
            /\ images' = <<>>
            /\ pc' = "extracting"
            /\ buffer' = <<>>
            /\ fullContent' = <<>>
            /\ wire' = <<>>
            /\ calls' = <<>>
            /\ htmlContent' = <<>>
            /\ alertMsg' = NoAlert
            /\ lastError' = NoError
            /\ stoppedAt' = -1
            /\ fetches' = 0
            /\ jobAlerts' = 0
            /\ UNCHANGED <<headersBound, stopBtnShown, generatedHtml, abortController, aborted>>
    /\ UNCHANGED <<model, usage, processingInfo>>
    /\ UNCHANGED <<apiUrlInput, apiTokenInput, globalHeaders>>
    /\ UNCHANGED extractedTextContent
    /\ OtherEvent

\* An extraction that fails when the file does not load and goes on to the
\* next page when a page does not decode.
ExtractionSkipsPage ==
    /\ pc = "extracting"
    /\ ~aborted
    /\ IF pageNo <= Len(pdf) /\ ~pdf[pageNo].decodes
       THEN /\ pageNo' = pageNo + 1
            /\ UNCHANGED <<pc, processBtnDisabled, abortController, stopBtnShown, alertMsg, buffer, wire, calls, model, usage, text, images, jobAlerts>>
       ELSE /\ pageNo = 1
            /\ text' = <<>>
            /\ images' = <<>>
            /\ TopLevelCatch(ExtractionError)
            /\ UNCHANGED pageNo
    /\ UNCHANGED <<isVision, isStreaming, headersBound, streamingContainerShown, previewContainerShown, downloadBtnShown, shadowRoot, streamingOutput, generatedHtml, aborted, hasReasoning, fullContent, htmlContent, lastError, stoppedAt>>
    /\ UNCHANGED <<processingInfo, apiUrlInput, apiTokenInput, apiUrl, headers, globalHeaders, request, pdf, extractedTextContent>>
    /\ UNCHANGED fetches
    /\ OtherEvent

\* convertPDFToImages or extractTextFromPDF throws: the file does not load
\* (before the first page), or the page the loop is at does not decode.
ExtractionFails ==
    /\ pc = "extracting"
    /\ ~aborted
    /\ pageNo = 1 \/ (pageNo <= Len(pdf) /\ ~pdf[pageNo].decodes)
    /\ text' = <<>>
    /\ images' = <<>>
    /\ TopLevelCatch(ExtractionError)
    /\ UNCHANGED <<isVision, isStreaming, headersBound, streamingContainerShown, previewContainerShown, downloadBtnShown, shadowRoot, streamingOutput, generatedHtml, aborted, hasReasoning, fullContent, htmlContent, lastError, stoppedAt>>
    /\ UNCHANGED <<processingInfo>>
    /\ UNCHANGED <<apiUrlInput, apiTokenInput, apiUrl, headers, globalHeaders, request>>
    /\ UNCHANGED <<pdf, pageNo, extractedTextContent>>
    /\ UNCHANGED fetches
    /\ OtherEvent

\* A page loop that puts each image in front of the ones before it.
PageDoneUnshift ==
    /\ pc = "extracting"
    /\ ~aborted
    /\ pageNo <= Len(pdf)
    /\ pdf[pageNo].decodes
    /\ IF isVision
       THEN images' = <<Image(pageNo, pdf[pageNo])>> \o images /\ UNCHANGED text
       ELSE text' = text \o Join(pdf[pageNo].items) \o <<"\n">> /\ UNCHANGED images
    /\ pageNo' = pageNo + 1
    /\ UNCHANGED <<pc, isVision, isStreaming, headersBound, processBtnDisabled, stopBtnShown, streamingContainerShown, previewContainerShown, downloadBtnShown, shadowRoot, streamingOutput, generatedHtml, abortController, aborted, hasReasoning, buffer, fullContent, wire, calls, htmlContent, alertMsg, lastError, stoppedAt>>
    /\ UNCHANGED <<model, usage, processingInfo, apiUrlInput, apiTokenInput, apiUrl, headers, globalHeaders, request, pdf, extractedTextContent>>
    /\ UNCHANGED <<fetches, jobAlerts>>
    /\ OtherEvent

\* One turn of the page loop: the page is rendered and pushed, or its text
\* is added with a newline.
PageDone ==
    /\ pc = "extracting"
    /\ ~aborted
    /\ pageNo <= Len(pdf)
    /\ pdf[pageNo].decodes
    /\ IF isVision
       THEN images' = Append(images, Image(pageNo, pdf[pageNo])) /\ UNCHANGED text
       ELSE text' = text \o Join(pdf[pageNo].items) \o <<"\n">> /\ UNCHANGED images
    /\ pageNo' = pageNo + 1
    /\ UNCHANGED <<pc, isVision, isStreaming, headersBound, processBtnDisabled, stopBtnShown, streamingContainerShown, previewContainerShown, downloadBtnShown, shadowRoot, streamingOutput, generatedHtml, abortController, aborted, hasReasoning, buffer, fullContent, wire, calls, htmlContent, alertMsg, lastError, stoppedAt>>
    /\ UNCHANGED <<model, usage, processingInfo, apiUrlInput, apiTokenInput, apiUrl, headers, globalHeaders, request, pdf, extractedTextContent>>
    /\ UNCHANGED <<fetches, jobAlerts>>
    /\ OtherEvent

\* The extraction returns; the handler sets the streaming job up and calls
\* the completion function, which evaluates headers and calls fetch.
ExtractionDone ==
    /\ pc = "extracting"
    /\ ~aborted
    /\ pageNo > Len(pdf)
    /\ extractedTextContent' = (IF isVision THEN extractedTextContent ELSE CleanUp(text))
    /\ text' = <<>>
    /\ streamingOutput' = <<>>
    /\ streamingContainerShown' = (isStreaming \/ streamingContainerShown)
    /\ IF headersBound
       THEN /\ pc' = "fetching"
            /\ request' = [url |-> CompletionsUrl(apiUrl), headers |-> globalHeaders]
            /\ abortController' = isStreaming
            /\ stopBtnShown' = (isStreaming \/ stopBtnShown)
            /\ fetches' = fetches + 1
            /\ UNCHANGED <<processBtnDisabled, alertMsg, lastError, buffer, wire, calls, model, usage, jobAlerts>>
       ELSE CompletionFails(WrapError(ReferenceError)) /\ UNCHANGED <<request, fetches>>
    /\ UNCHANGED <<isVision, isStreaming, headersBound, previewContainerShown, downloadBtnShown, shadowRoot, generatedHtml, aborted, hasReasoning, fullContent, htmlContent, stoppedAt>>
    /\ UNCHANGED <<processingInfo>>
    /\ UNCHANGED <<apiUrlInput, apiTokenInput, globalHeaders>>
    /\ UNCHANGED <<apiUrl, headers>>
    /\ UNCHANGED <<pdf, pageNo, images>>
    /\ OtherEvent

\* A fetch that is called once more when it has failed.
FetchFailsRetries(error) ==
    /\ pc = "fetching"
    /\ ~aborted
    /\ IF fetches < 2
       THEN /\ fetches' = fetches + 1
            /\ UNCHANGED <<pc, processBtnDisabled, abortController, stopBtnShown, alertMsg, lastError, buffer, wire, calls, model, usage, jobAlerts>>
       ELSE CompletionFails(WrapError(error)) /\ UNCHANGED fetches
    /\ UNCHANGED <<isVision, isStreaming, headersBound, streamingContainerShown, previewContainerShown, downloadBtnShown, shadowRoot, streamingOutput, generatedHtml, aborted, hasReasoning, fullContent, htmlContent, stoppedAt>>
    /\ UNCHANGED <<processingInfo>>
    /\ UNCHANGED <<apiUrlInput, apiTokenInput, apiUrl, headers, globalHeaders, request>>
    /\ UNCHANGED <<pdf, pageNo, text, images, extractedTextContent>>
    /\ OtherEvent

\* fetch rejects, or resolves with a status that is not ok.
FetchFails(error) ==
    /\ pc = "fetching"
    /\ ~aborted
    /\ CompletionFails(WrapError(error))
    /\ UNCHANGED <<isVision, isStreaming, headersBound, streamingContainerShown, previewContainerShown, downloadBtnShown, shadowRoot, streamingOutput, generatedHtml, aborted, hasReasoning, fullContent, htmlContent, stoppedAt>>
    /\ UNCHANGED <<processingInfo>>
    /\ UNCHANGED <<apiUrlInput, apiTokenInput, apiUrl, headers, globalHeaders, request>>
    /\ UNCHANGED <<pdf, pageNo, text, images, extractedTextContent>>
    /\ UNCHANGED fetches
    /\ OtherEvent

\* fetch resolves with an ok response: the read loop or response.json().
FetchOk ==
    /\ pc = "fetching"
    /\ ~aborted
    /\ pc' = IF isStreaming THEN "reading" ELSE "json"
    /\ buffer' = <<>>
    /\ fullContent' = <<>>
    /\ UNCHANGED <<isVision, isStreaming, headersBound, processBtnDisabled, stopBtnShown, streamingContainerShown, previewContainerShown, downloadBtnShown, shadowRoot, streamingOutput, generatedHtml, abortController, aborted, hasReasoning, wire, calls, htmlContent, alertMsg, lastError, stoppedAt>>
    /\ UNCHANGED <<processingInfo>>
    /\ model' = None
    /\ usage' = None
    /\ UNCHANGED <<apiUrlInput, apiTokenInput, apiUrl, headers, globalHeaders, request>>
    /\ UNCHANGED <<pdf, pageNo, text, images, extractedTextContent>>
    /\ UNCHANGED <<fetches, jobAlerts>>
    /\ OtherEvent

\* A handler that does not release the controller when the job has succeeded.
JobSucceedsKeepsController(html, m, u) ==
    /\ generatedHtml' = html
    /\ shadowRoot' = html
    /\ streamingContainerShown' = IF isStreaming /\ ~hasReasoning THEN FALSE ELSE streamingContainerShown
    /\ previewContainerShown' = TRUE
    /\ downloadBtnShown' = TRUE
    /\ processBtnDisabled' = FALSE
    /\ UNCHANGED abortController
    /\ stopBtnShown' = FALSE
    /\ pc' = "idle"
    /\ buffer' = <<>>
    /\ wire' = <<>>
    /\ calls' = <<>>
    /\ processingInfo' = [model |-> m, usage |-> u]
    /\ model' = None
    /\ usage' = None
    /\ UNCHANGED jobAlerts

\* The handler after the completion call returned html: the result is kept,
\* rendered and offered for download, and the job ends, and with it the
\* locals of the completion call.
JobSucceeds(html, m, u) ==
    /\ generatedHtml' = html
    /\ shadowRoot' = html
    /\ streamingContainerShown' = IF isStreaming /\ ~hasReasoning THEN FALSE ELSE streamingContainerShown
    /\ previewContainerShown' = TRUE
    /\ downloadBtnShown' = TRUE
    /\ processBtnDisabled' = FALSE
    /\ abortController' = FALSE
    /\ stopBtnShown' = FALSE
    /\ pc' = "idle"
    /\ buffer' = <<>>
    /\ wire' = <<>>
    /\ calls' = <<>>
    /\ processingInfo' = [model |-> m, usage |-> u]
    /\ model' = None
    /\ usage' = None
    /\ UNCHANGED jobAlerts

\* A read loop that splits each chunk on its own: what the chunk before it
\* left incomplete is not put in front.
ReadWithoutCarry(value) ==
    /\ pc = "reading"
    /\ ~aborted
    /\ LET pieces == SplitLines(value, <<>>, <<>>)
           lines == SubSeq(pieces, 1, Len(pieces) - 1)
           st == ProcessLines([fullContent |-> fullContent, page |-> Observed, calls |-> calls, model |-> model, usage |-> usage], lines)
       IN /\ buffer' = pieces[Len(pieces)]
          /\ fullContent' = st.fullContent
          /\ calls' = st.calls
          /\ hasReasoning' = st.page.hasReasoning
          /\ streamingOutput' = st.page.streamingOutput
          /\ shadowRoot' = st.page.shadowRoot
          /\ previewContainerShown' = st.page.previewContainerShown
          /\ htmlContent' = st.page.htmlContent
          /\ model' = st.model
          /\ usage' = st.usage
    /\ wire' = wire \o value
    /\ UNCHANGED <<pc, isVision, isStreaming, headersBound, processBtnDisabled, stopBtnShown, streamingContainerShown, downloadBtnShown, generatedHtml, abortController, aborted, alertMsg, lastError, stoppedAt>>
    /\ UNCHANGED <<processingInfo>>
    /\ UNCHANGED <<apiUrlInput, apiTokenInput, apiUrl, headers, globalHeaders, request>>
    /\ UNCHANGED <<pdf, pageNo, text, images, extractedTextContent>>
    /\ UNCHANGED <<fetches, jobAlerts>>
    /\ OtherEvent

\* reader.read() resolves with value: the lines value completes are handled
\* in order, the rest stays in buffer.
Read(value) ==
    /\ pc = "reading"
    /\ ~aborted
    /\ LET pieces == SplitLines(buffer \o value, <<>>, <<>>)
           lines == SubSeq(pieces, 1, Len(pieces) - 1)
           st == ProcessLines([fullContent |-> fullContent, page |-> Observed, calls |-> calls, model |-> model, usage |-> usage], lines)
       IN /\ buffer' = pieces[Len(pieces)]
          /\ fullContent' = st.fullContent
          /\ calls' = st.calls
          /\ hasReasoning' = st.page.hasReasoning
          /\ streamingOutput' = st.page.streamingOutput
          /\ shadowRoot' = st.page.shadowRoot
          /\ previewContainerShown' = st.page.previewContainerShown
          /\ htmlContent' = st.page.htmlContent
          /\ model' = st.model
          /\ usage' = st.usage
    /\ wire' = wire \o value
    /\ UNCHANGED <<pc, isVision, isStreaming, headersBound, processBtnDisabled, stopBtnShown, streamingContainerShown, downloadBtnShown, generatedHtml, abortController, aborted, alertMsg, lastError, stoppedAt>>
    /\ UNCHANGED <<processingInfo>>
    /\ UNCHANGED <<apiUrlInput, apiTokenInput, apiUrl, headers, globalHeaders, request>>
    /\ UNCHANGED <<pdf, pageNo, text, images, extractedTextContent>>
    /\ UNCHANGED <<fetches, jobAlerts>>
    /\ OtherEvent

\* A read of the job specification: the stream delivers at most MaxWire
\* symbols.
StreamRead(value) == Len(wire) + Len(value) <= MaxWire /\ Read(value)

\* reader.read() rejects: the transport failed.
ReadFails ==
    /\ pc = "reading"
    /\ ~aborted
    /\ CompletionFails(WrapError(NetworkError))
    /\ UNCHANGED <<isVision, isStreaming, headersBound, streamingContainerShown, previewContainerShown, downloadBtnShown, shadowRoot, streamingOutput, generatedHtml, aborted, hasReasoning, fullContent, htmlContent, stoppedAt>>
    /\ UNCHANGED <<processingInfo>>
    /\ UNCHANGED <<apiUrlInput, apiTokenInput, apiUrl, headers, globalHeaders, request>>
    /\ UNCHANGED <<pdf, pageNo, text, images, extractedTextContent>>
    /\ UNCHANGED fetches
    /\ OtherEvent

\* reader.read() resolves with done: the final pass over fullContent.
ReadDone ==
    /\ pc = "reading"
    /\ ~aborted
    /\ JobSucceeds(IF isVision THEN HtmlFromImages(fullContent) ELSE HtmlFromText(fullContent), model, usage)
    /\ UNCHANGED <<isVision, isStreaming, headersBound, streamingOutput, aborted, hasReasoning, fullContent, htmlContent, alertMsg, lastError, stoppedAt>>
    /\ UNCHANGED <<apiUrlInput, apiTokenInput, apiUrl, headers, globalHeaders, request>>
    /\ UNCHANGED <<pdf, pageNo, text, images, extractedTextContent>>
    /\ UNCHANGED fetches
    /\ OtherEvent

\* response.json() resolves with the body content: its
\* choices[0].message.content is content.text.
JsonOk(content) ==
    /\ pc = "json"
    /\ ~aborted
    /\ JobSucceeds(IF isVision THEN HtmlFromImages(content.text) ELSE HtmlFromText(content.text), content.model, content.usage)
    /\ fullContent' = content.text
    /\ UNCHANGED <<isVision, isStreaming, headersBound, streamingOutput, aborted, hasReasoning, htmlContent, alertMsg, lastError, stoppedAt>>
    /\ UNCHANGED <<apiUrlInput, apiTokenInput, apiUrl, headers, globalHeaders, request>>
    /\ UNCHANGED <<pdf, pageNo, text, images, extractedTextContent>>
    /\ UNCHANGED fetches
    /\ OtherEvent

\* response.json() rejects, or the body has no choices[0].message.content.
JsonFails ==
    /\ pc = "json"
    /\ ~aborted
    /\ CompletionFails(WrapError(BodyError))
    /\ UNCHANGED <<isVision, isStreaming, headersBound, streamingContainerShown, previewContainerShown, downloadBtnShown, shadowRoot, streamingOutput, generatedHtml, aborted, hasReasoning, fullContent, htmlContent, stoppedAt>>
    /\ UNCHANGED <<processingInfo>>
    /\ UNCHANGED <<apiUrlInput, apiTokenInput, apiUrl, headers, globalHeaders, request>>
    /\ UNCHANGED <<pdf, pageNo, text, images, extractedTextContent>>
    /\ UNCHANGED fetches
    /\ OtherEvent

\* A stop handler that resets the controls without aborting the request.
StopClickNoAbort ==
    /\ ~aborted
    /\ IF abortController
       THEN /\ abortController' = FALSE
            /\ streamingContainerShown' = FALSE
            /\ previewContainerShown' = FALSE
            /\ downloadBtnShown' = FALSE
            /\ processBtnDisabled' = FALSE
            /\ stopBtnShown' = FALSE
            /\ stoppedAt' = Len(calls)
            /\ UNCHANGED <<pc, isVision, isStreaming, headersBound, shadowRoot, streamingOutput, generatedHtml, aborted, hasReasoning, buffer, fullContent, wire, calls, htmlContent, alertMsg, lastError>>
       ELSE UNCHANGED <<pc, isVision, isStreaming, headersBound, processBtnDisabled, stopBtnShown, streamingContainerShown, previewContainerShown, downloadBtnShown, shadowRoot, streamingOutput, generatedHtml, abortController, aborted, hasReasoning, buffer, fullContent, wire, calls, htmlContent, alertMsg, lastError, stoppedAt>>
    /\ UNCHANGED <<model, usage, processingInfo>>
    /\ UNCHANGED <<apiUrlInput, apiTokenInput, apiUrl, headers, globalHeaders, request>>
    /\ UNCHANGED <<pdf, pageNo, text, images, extractedTextContent>>
    /\ UNCHANGED <<fetches, jobAlerts>>
    /\ stopIgnored' = ~abortController
    /\ blob' = NoBlob

\* stopBtn is clicked.
StopClick ==
    /\ ~aborted
    /\ IF abortController
       THEN /\ aborted' = TRUE
            /\ abortController' = FALSE
            /\ streamingContainerShown' = FALSE
            /\ previewContainerShown' = FALSE
            /\ downloadBtnShown' = FALSE
            /\ processBtnDisabled' = FALSE
            /\ stopBtnShown' = FALSE
            /\ stoppedAt' = Len(calls)
            /\ UNCHANGED <<pc, isVision, isStreaming, headersBound, shadowRoot, streamingOutput, generatedHtml, hasReasoning, buffer, fullContent, wire, calls, htmlContent, alertMsg, lastError>>
       ELSE UNCHANGED <<pc, isVision, isStreaming, headersBound, processBtnDisabled, stopBtnShown, streamingContainerShown, previewContainerShown, downloadBtnShown, shadowRoot, streamingOutput, generatedHtml, abortController, aborted, hasReasoning, buffer, fullContent, wire, calls, htmlContent, alertMsg, lastError, stoppedAt>>
    /\ UNCHANGED <<model, usage, processingInfo>>
    /\ UNCHANGED <<apiUrlInput, apiTokenInput, apiUrl, headers, globalHeaders, request>>
    /\ UNCHANGED <<pdf, pageNo, text, images, extractedTextContent>>
    /\ UNCHANGED <<fetches, jobAlerts>>
    /\ stopIgnored' = ~abortController
    /\ blob' = NoBlob

\* The pending fetch or read rejects with the AbortError the abort queued.
AbortDelivered ==
    /\ aborted
    /\ pc \in {"fetching", "reading"}
    /\ aborted' = FALSE
    /\ CompletionFails(WrapError(AbortError))
    /\ UNCHANGED <<isVision, isStreaming, headersBound, streamingContainerShown, previewContainerShown, downloadBtnShown, shadowRoot, streamingOutput, generatedHtml, hasReasoning, fullContent, htmlContent, stoppedAt>>
    /\ UNCHANGED <<processingInfo>>
    /\ UNCHANGED <<apiUrlInput, apiTokenInput, apiUrl, headers, globalHeaders, request>>
    /\ UNCHANGED <<pdf, pageNo, text, images, extractedTextContent>>
    /\ UNCHANGED fetches
    /\ OtherEvent

\* downloadBtn, which can be clicked when it is shown, is clicked.
DownloadClick ==
    /\ downloadBtnShown
    /\ ~aborted
    /\ blob' = Download(generatedHtml)
    /\ stopIgnored' = FALSE
    /\ UNCHANGED <<pc, isVision, isStreaming, headersBound, processBtnDisabled, stopBtnShown, streamingContainerShown, previewContainerShown, downloadBtnShown, shadowRoot, streamingOutput, generatedHtml, abortController, aborted, hasReasoning, buffer, fullContent, wire, calls, htmlContent, alertMsg, lastError, stoppedAt>>
    /\ UNCHANGED <<model, usage, processingInfo>>
    /\ UNCHANGED <<apiUrlInput, apiTokenInput, apiUrl, headers, globalHeaders, request>>
    /\ UNCHANGED <<pdf, pageNo, text, images, extractedTextContent>>
    /\ UNCHANGED <<fetches, jobAlerts>>

Next ==
    \/ \E file \in {NoFile, BlankPdf}, vision, streaming \in BOOLEAN : ProcessClick(file, vision, streaming)
    \/ PageDone
    \/ ExtractionFails
    \/ ExtractionDone
    \/ \E error \in {NetworkError, ApiError} : FetchFails(error)
    \/ FetchOk
    \/ \E value \in SeqsUpTo(WireSymbols, MaxRead) : StreamRead(value)
    \/ ReadFails
    \/ ReadDone
    \/ \E content \in Bodies : JsonOk(content)
    \/ JsonFails
    \/ StopClick
    \/ AbortDelivered
    \/ DownloadClick

Spec == Init /\ [][Next]_vars

\* ------------------------------------------------------------------------
\* The reducer specification: one streaming completion whose every read
\* delivers one whole content frame, the deltas drawn from all the lexemes,
\* and in which the observer may be invoked again on the buffer it has just
\* reduced.
\* ------------------------------------------------------------------------

\* 'prefix ```html\n<p>hi</p>\n``` suffix'
FencedExample == <<"p", WS, FenceOpen, WS, "p", WS, FenceClose, WS, "p">>

\* The deltas of the reducer specification: one lexeme each.
Deltas == {<<t>> : t \in Tokens}

\* A streaming job of either modality whose fetch has just resolved.
InitReducer ==
    /\ pc = "reading"
    /\ isVision \in BOOLEAN
    /\ isStreaming = TRUE
    /\ headersBound = TRUE
    /\ processBtnDisabled = TRUE
    /\ stopBtnShown = TRUE
    /\ streamingContainerShown = TRUE
    /\ previewContainerShown = FALSE
    /\ downloadBtnShown = FALSE
    /\ shadowRoot = <<>>
    /\ streamingOutput = <<>>
    /\ generatedHtml = <<>>
    /\ abortController = TRUE
    /\ aborted = FALSE
    /\ hasReasoning = FALSE
    /\ buffer = <<>>
    /\ fullContent = <<>>
    /\ wire = <<>>
    /\ calls = <<>>
    /\ htmlContent = <<>>
    /\ alertMsg = NoAlert
    /\ lastError = NoError
    /\ stoppedAt = -1
    /\ model = None
    /\ usage = None
    /\ processingInfo = [model |-> None, usage |-> None]
    /\ apiUrlInput = <<>>
    /\ apiTokenInput = <<>>
    /\ apiUrl = ApiUrl(apiUrlInput)
    /\ headers = JobHeaders(apiTokenInput)
    /\ globalHeaders = {}
    /\ request = [url |-> CompletionsUrl(apiUrl), headers |-> globalHeaders]
    /\ pdf = BlankPdf
    /\ pageNo = 2
    /\ text = <<>>
    /\ images = (IF isVision THEN <<Image(1, BlankPdf[1])>> ELSE <<>>)
    /\ extractedTextContent = <<>>
    /\ fetches = 1
    /\ jobAlerts = 0
    /\ blob = NoBlob
    /\ stopIgnored = FALSE

\* No invocation yet, or the last one was the frame loop's: the re-invoked
\* observer is the last thing a behaviour of this specification does before
\* the stream ends.
NotReinvoked == IF calls = <<>> THEN TRUE ELSE calls[Len(calls)].chunk # <<>>

\* A read that delivers the frame of delta and its newline.
FrameRead(delta) == NotReinvoked /\ Len(fullContent) < MaxLen /\ Read(<<Data(delta), NL>>)

\* The first read delivers the whole fenced example as one delta.
ExampleRead == NotReinvoked /\ fullContent = <<>> /\ Read(<<Data(FencedExample), NL>>)

\* The observer is called once more with the fullContent of its last call
\* (logged with an empty chunk).
Reinvoke ==
    /\ pc = "reading"
    /\ ~aborted
    /\ calls # <<>>
    /\ NotReinvoked
    /\ LET page == OnChunk(Observed, <<>>, fullContent)
       IN /\ hasReasoning' = page.hasReasoning
          /\ streamingOutput' = page.streamingOutput
          /\ shadowRoot' = page.shadowRoot
          /\ previewContainerShown' = page.previewContainerShown
          /\ htmlContent' = page.htmlContent
    /\ calls' = Append(calls, [chunk |-> <<>>, fullContent |-> fullContent])
    /\ UNCHANGED <<pc, isVision, isStreaming, headersBound, processBtnDisabled, stopBtnShown, streamingContainerShown, downloadBtnShown, generatedHtml, abortController, aborted, buffer, fullContent, wire, alertMsg, lastError, stoppedAt>>
    /\ UNCHANGED <<model, usage, processingInfo>>
    /\ UNCHANGED <<apiUrlInput, apiTokenInput, apiUrl, headers, globalHeaders, request>>
    /\ UNCHANGED <<pdf, pageNo, text, images, extractedTextContent>>
    /\ UNCHANGED <<fetches, jobAlerts>>
    /\ OtherEvent

NextReducer ==
    \/ \E delta \in Deltas : FrameRead(delta)
    \/ ExampleRead
    \/ Reinvoke
    \/ ReadDone

SpecReducer == InitReducer /\ [][NextReducer]_vars

\* ------------------------------------------------------------------------
\* The stream specification: one streaming completion whose every read
\* delivers one whole line, the lines drawn from frames with and without
\* content, model and usage, the terminator and a malformed frame.
\* ------------------------------------------------------------------------

\* Most lines the response stream of the stream specification delivers.
MaxFrames == 3

\* The lines of the stream specification.
StreamFrames ==
    {Data(<<"p">>),
     Frame("none", <<>>, "m1", None), Frame("none", <<>>, "m2", None),
     Frame("none", <<>>, None, "u1"), Frame("none", <<>>, None, "u2"),
     Frame("delta", <<"p">>, "m1", "u1"),
     Frame("empty", <<>>, "m2", "u2"),
     Done, Bad}

\* A read that delivers the line sym and its newline.
LineRead(sym) == Len(wire) < 2 * MaxFrames /\ Read(<<sym, NL>>)

NextStream ==
    \/ \E sym \in StreamFrames : LineRead(sym)
    \/ ReadFails
    \/ ReadDone

SpecStream == InitReducer /\ [][NextStream]_vars

\* ------------------------------------------------------------------------
\* The request specification: the page with an endpoint and a credential
\* typed in, and jobs up to the response of their fetch.
\* ------------------------------------------------------------------------

InitRequest ==
    /\ pc = "idle"
    /\ isVision = FALSE
    /\ isStreaming = FALSE
    /\ headersBound \in BOOLEAN
    /\ processBtnDisabled = FALSE
    /\ stopBtnShown = FALSE
    /\ streamingContainerShown = FALSE
    /\ previewContainerShown = FALSE
    /\ downloadBtnShown = FALSE
    /\ shadowRoot = <<>>
    /\ streamingOutput = <<>>
    /\ generatedHtml = <<>>
    /\ abortController = FALSE
    /\ aborted = FALSE
    /\ hasReasoning = FALSE
    /\ buffer = <<>>
    /\ fullContent = <<>>
    /\ wire = <<>>
    /\ calls = <<>>
    /\ htmlContent = <<>>
    /\ alertMsg = NoAlert
    /\ lastError = NoError
    /\ stoppedAt = -1
    /\ model = None
    /\ usage = None
    /\ processingInfo = [model |-> None, usage |-> None]
    /\ apiUrlInput \in UrlInputs
    /\ apiTokenInput \in TokenInputs
    /\ apiUrl = <<>>
    /\ headers = {}
    /\ globalHeaders \in (IF headersBound THEN GlobalHeaders ELSE {{}})
    /\ request = NoRequest
    /\ pdf = NoFile
    /\ pageNo = 1
    /\ text = <<>>
    /\ images = <<>>
    /\ extractedTextContent = <<>>
    /\ fetches = 0
    /\ jobAlerts = 0
    /\ blob = NoBlob
    /\ stopIgnored = FALSE

NextRequest ==
    \/ \E vision, streaming \in BOOLEAN : ProcessClick(BlankPdf, vision, streaming)
    \/ PageDone
    \/ ExtractionFails
    \/ ExtractionDone
    \/ \E error \in {NetworkError, ApiError} : FetchFails(error)

SpecRequest == InitRequest /\ [][NextRequest]_vars

\* ------------------------------------------------------------------------
\* The extraction specification: one single-shot job of either modality,
\* just started on a document of up to MaxPages pages.
\* ------------------------------------------------------------------------

\* Most pages of a document.
MaxPages == 2

\* The pages documents are made of.
Pages ==
    {Page(<<>>),
     Page(<<<<"a">>>>),
     Page(<<<<"b">>, <<"b">>>>),
     Page(<<<<" ", "a", "\n", "\n", "b", "\t">>>>),
     Page(<<<<>>, <<"\n">>>>),
     BrokenPage}

Docs == SeqsUpTo(Pages, MaxPages)

InitExtract ==
    /\ pc = "extracting"
    /\ isVision \in BOOLEAN
    /\ isStreaming = FALSE
    /\ headersBound = TRUE
    /\ processBtnDisabled = TRUE
    /\ stopBtnShown = FALSE
    /\ streamingContainerShown = FALSE
    /\ previewContainerShown = FALSE
    /\ downloadBtnShown = FALSE
    /\ shadowRoot = <<>>
    /\ streamingOutput = <<>>
    /\ generatedHtml = <<>>
    /\ abortController = FALSE
    /\ aborted = FALSE
    /\ hasReasoning = FALSE
    /\ buffer = <<>>
    /\ fullContent = <<>>
    /\ wire = <<>>
    /\ calls = <<>>
    /\ htmlContent = <<>>
    /\ alertMsg = NoAlert
    /\ lastError = NoError
    /\ stoppedAt = -1
    /\ model = None
    /\ usage = None
    /\ processingInfo = [model |-> None, usage |-> None]
    /\ apiUrlInput = <<>>
    /\ apiTokenInput = <<>>
    /\ apiUrl = ApiUrl(apiUrlInput)
    /\ headers = JobHeaders(apiTokenInput)
    /\ globalHeaders = {}
    /\ request = NoRequest
    /\ pdf \in Docs
    /\ pageNo = 1
    /\ text = <<>>
    /\ images = <<>>
    /\ extractedTextContent = <<>>
    /\ fetches = 0
    /\ jobAlerts = 0
    /\ blob = NoBlob
    /\ stopIgnored = FALSE

NextExtract ==
    \/ PageDone
    \/ ExtractionFails
    \/ ExtractionDone
    \/ FetchFails(NetworkError)

SpecExtract == InitExtract /\ [][NextExtract]_vars

\* ------------------------------------------------------------------------
\* The excerpt specification: one streaming completion whose every read
\* delivers one whole content frame, the deltas drawn from the tags of both
\* vocabularies as the source spells them and from ordinary text.
\* ------------------------------------------------------------------------

\* Longest cumulative buffer to which the excerpt specification appends.
MaxTags == 4

\* The deltas of the excerpt specification: one lexeme each.
TagDeltas == {<<t>> : t \in {ThinkingOpen, ThinkingClose, ThinkOpen, ThinkClose, "p"}}

\* A read that delivers the frame of delta and its newline.
TagRead(delta) == Len(fullContent) < MaxTags /\ Read(<<Data(delta), NL>>)

NextTags ==
    \/ \E delta \in TagDeltas : TagRead(delta)
    \/ ReadDone

SpecTags == InitReducer /\ [][NextTags]_vars

\* ------------------------------------------------------------------------
\* The split specification: one streaming completion whose response body
\* arrives in chunks cut anywhere: between the lines, between a line and
\* its newline, or inside a line.
\* ------------------------------------------------------------------------

\* Most wire symbols the response body of the split specification holds.
MaxSplit == 5

\* The data line the split specification cuts in two: it carries a delta,
\* a model id and a usage record.
SplitFrame == Frame("delta", <<"p">>, "m1", "u1")

\* What a chunk is made of: a whole data line, the two parts of another,
\* and the newline.
SplitSymbols == {Data(<<ThinkingOpen>>), FrameStart(SplitFrame), FrameEnd(SplitFrame), NL}

\* A read of the split specification: the body holds at most MaxSplit
\* symbols.
SplitRead(value) == Len(wire) + Len(value) <= MaxSplit /\ Read(value)

NextSplit ==
    \/ \E value \in SeqsUpTo(SplitSymbols, MaxRead) : SplitRead(value)
    \/ ReadDone

SpecSplit == InitReducer /\ [][NextSplit]_vars

\* ------------------------------------------------------------------------
\* Properties
\* ------------------------------------------------------------------------

Range(f) == {f[k] : k \in DOMAIN f}

Least(S) == CHOOSE k \in S : \A m \in S : k <= m

Greatest(S) == CHOOSE k \in S : \A m \in S : k >= m

\* The observer has reduced fullContent and the stream is still open.
ObserverRan == pc = "reading" /\ calls # <<>>

\* A streaming or single-shot job has just succeeded on fullContent.
JobDone == pc = "idle" /\ downloadBtnShown

\* The terminated <think>...</think> spans of s: an opening tag, and the
\* first closing tag after it.
ThinkSpans(s) ==
    {sp \in (1..Len(s)) \X (1..Len(s)) :
        /\ sp[1] < sp[2]
        /\ s[sp[1]] = ThinkOpen
        /\ s[sp[2]] = ThinkClose
        /\ \A k \in (sp[1] + 1)..(sp[2] - 1) : s[k] # ThinkClose}

FirstThinkSpan(s) == CHOOSE sp \in ThinkSpans(s) : \A other \in ThinkSpans(s) : sp[1] <= other[1]

\* No position of the span sp of s is part of the observer's HTML payload.
Excluded(s, sp) == \A k \in sp[1]..sp[2] : k \notin Range(HtmlContentPositions(s))

\* C1 as claimed: whenever the buffer the observer has reduced holds a
\* terminated <think>...</think> span, the HTML payload holds nothing of any
\* such span and the reasoning excerpt is the interior of the first one.
C1_AnyBuffer ==
    (ObserverRan /\ ThinkSpans(fullContent) # {}) =>
        /\ \A sp \in ThinkSpans(fullContent) : Excluded(fullContent, sp)
        /\ htmlContent = TextAt(fullContent, HtmlContentPositions(fullContent))
        /\ streamingOutput = SubSeq(fullContent, FirstThinkSpan(fullContent)[1] + 1, FirstThinkSpan(fullContent)[2] - 1)

\* No <thinking> opening tag, in any letter case.
NoThinkingOpen(s) == \A k \in 1..Len(s) : Lower(s[k]) # ThinkingOpen

\* No </think> in another letter case inside the span.
NoOtherCaseClose(s, sp) == \A k \in (sp[1] + 1)..(sp[2] - 1) : Lower(s[k]) # ThinkClose

\* C1 as amended: in a buffer with a terminated <think>...</think> span and
\* no <thinking> opening tag in any letter case, the reasoning excerpt is
\* the interior of the first such span, and the HTML payload holds nothing
\* of any such span that has no differently-cased </think> inside it.
C1_ThinkOnly ==
    (ObserverRan /\ ThinkSpans(fullContent) # {} /\ NoThinkingOpen(fullContent)) =>
        /\ \A sp \in ThinkSpans(fullContent) : NoOtherCaseClose(fullContent, sp) => Excluded(fullContent, sp)
        /\ htmlContent = TextAt(fullContent, HtmlContentPositions(fullContent))
        /\ streamingOutput = SubSeq(fullContent, FirstThinkSpan(fullContent)[1] + 1, FirstThinkSpan(fullContent)[2] - 1)

\* C1 witness: the observer has reduced <think>p</think>.
C1_Witness ==
    /\ ObserverRan
    /\ ThinkSpans(fullContent) # {}
    /\ NoThinkingOpen(fullContent)
    /\ NoOtherCaseClose(fullContent, FirstThinkSpan(fullContent))
    /\ streamingOutput = <<"p">>

\* t without its leading and trailing white space.
Trimmed(t) ==
    LET solid == {k \in 1..Len(t) : t[k] # WS}
    IN IF solid = {} THEN <<>> ELSE SubSeq(t, Least(solid), Greatest(solid))

\* The positions of t at which a terminated html fence opens.
FenceOpenings(t) == {i \in 1..Len(t) : t[i] = FenceOpen /\ \E j \in (i + 1)..Len(t) : t[j] \in {FenceClose, FenceOpen}}

\* The payload the claim gives for the text t that the removal of the
\* reasoning spans leaves: the trimmed interior of the first terminated html
\* fence, and all of t, trimmed, when there is none.
FencePayload(t) ==
    IF FenceOpenings(t) = {} THEN Trimmed(t)
    ELSE LET i == Least(FenceOpenings(t))
             j == Least({k \in (i + 1)..Len(t) : t[k] \in {FenceClose, FenceOpen}})
         IN Trimmed(SubSeq(t, i + 1, j - 1))

\* C4: the observer's payload, and the html of the result a finished job
\* keeps, are the fence payload of what the removal of the reasoning spans
\* leaves of the buffer; the fenced example yields exactly <p>hi</p>, and
\* <p>hi</p> alone is returned unchanged.
C4_FencePayload ==
    /\ ObserverRan => htmlContent = FencePayload(TextAt(fullContent, WithoutReasoning(fullContent, TRUE)))
    /\ JobDone => generatedHtml = FencePayload(TextAt(fullContent, WithoutReasoning(fullContent, isVision)))
    /\ (ObserverRan /\ fullContent \in {FencedExample, <<"p">>}) => htmlContent = <<"p">>
    /\ (JobDone /\ fullContent \in {FencedExample, <<"p">>}) => generatedHtml = <<"p">>

\* C4 witness: the job has finished on the fenced example.
C4_Witness == JobDone /\ fullContent = FencedExample /\ generatedHtml = <<"p">> /\ htmlContent = <<"p">>

\* C5: invoking the observer again on the buffer it has just reduced leaves
\* everything it writes as it was: the payload, the excerpt, the preview
\* and the latch.
C5_Idempotent == [][Reinvoke => UNCHANGED observerVars]_vars

\* C5 witness: the observer has been invoked again on a buffer with a
\* payload and an excerpt.
C5_Witness ==
    /\ ObserverRan
    /\ calls[Len(calls)].chunk = <<>>
    /\ streamingOutput # <<>>
    /\ htmlContent # <<>>

\* The buffer has a <thinking> opening tag and no closing tag for it.
UnterminatedThinking(s) == Includes(s, ThinkingOpen) /\ \A k \in 1..Len(s) : Lower(s[k]) # ThinkingClose

\* The text of s before its first <thinking> opening tag, and after it.
BeforeThinking(s) == SubSeq(s, 1, Least({k \in 1..Len(s) : s[k] = ThinkingOpen}) - 1)

AfterThinking(s) == SubSeq(s, Least({k \in 1..Len(s) : s[k] = ThinkingOpen}) + 1, Len(s))

\* C2 as claimed: for a buffer with an unterminated <thinking> tag the
\* excerpt is everything after the tag, and the payload is derived from the
\* text before the tag alone, in the observer and in the result of a
\* finished job of either modality, streaming or single-shot.
C2_EveryPlace ==
    /\ (ObserverRan /\ UnterminatedThinking(fullContent)) =>
          /\ streamingOutput = AfterThinking(fullContent)
          /\ htmlContent = FencePayload(BeforeThinking(fullContent))
    /\ (JobDone /\ UnterminatedThinking(fullContent)) =>
          generatedHtml = FencePayload(BeforeThinking(fullContent))

\* C3 as claimed: the html a finished streaming job keeps is the payload
\* the observer's last invocation derived from the same complete buffer.
C3_SameLogic == (JobDone /\ isStreaming /\ fullContent # <<>>) => generatedHtml = htmlContent

\* C6: within a job the latch never goes back to false, it is false when a
\* job starts, and when a streaming job succeeds the reasoning panel stays
\* shown exactly when the latch is set.
C6_Latch ==
    [][/\ (pc # "idle" /\ hasReasoning) => hasReasoning'
       /\ (pc = "idle" /\ pc' # "idle") => ~hasReasoning'
       /\ (pc = "reading" /\ pc' = "idle" /\ downloadBtnShown') => (streamingContainerShown' = hasReasoning')]_vars

\* C6 witness: a streaming job has ended with the latch set by a chunk
\* that was not its last, and the panel is shown.
C6_Witness ==
    /\ JobDone
    /\ isStreaming
    /\ hasReasoning
    /\ streamingContainerShown
    /\ Len(fullContent) >= 2
    /\ fullContent[1] = ThinkingOpen

\* C7 as claimed: after the stop control has aborted a streaming completion,
\* the error the completion call throws is an AbortError, which is what the
\* caller tests for, and the observer is not invoked again.
C7_CancelledError ==
    /\ (stoppedAt # -1 /\ lastError # NoError) => lastError.name = "AbortError"
    /\ (stoppedAt # -1 /\ pc # "idle") => Len(calls) = stoppedAt

\* C8 as claimed: a job the stop control has aborted alerts no error.
C8_NoErrorAlert == stoppedAt # -1 => alertMsg \in {NoAlert, NoFileMessage}

\* C9 as claimed: the trigger control is disabled whenever a job is in
\* flight.
C9_DisabledUntilTerminated == pc # "idle" => processBtnDisabled

\* C9 as amended: whenever a click can be dispatched (no rejection of an
\* abort is queued) and the trigger control is enabled, no job is in flight:
\* a job starts only after the handler of the one before it has finished.
C9_OneJob == (~processBtnDisabled /\ ~aborted) => pc = "idle"

\* C9 witness: a second job is reading its stream, the trigger disabled,
\* after the first one has finished and left its result.
C9_Witness == pc = "reading" /\ processBtnDisabled /\ generatedHtml # <<>> /\ calls # <<>>

\* The content frames of the wire w that stand alone on a line the stream
\* has completed, in the order of their arrival.
CompleteFrames(w) ==
    SelectSeq([k \in 1..Len(w) |-> k],
              LAMBDA k : /\ w[k].kind = "data"
                         /\ k < Len(w)
                         /\ w[k + 1] = NL
                         /\ (k = 1 \/ w[k - 1] = NL))

\* C10: the observer is invoked once for each content frame, in the order
\* of their arrival, and each invocation is passed the buffer of the one
\* before it with its own delta appended.
C10_ArrivalOrder ==
    /\ \A i \in 1..Len(calls) :
          /\ calls[i].chunk # <<>>
          /\ calls[i].fullContent = (IF i = 1 THEN <<>> ELSE calls[i - 1].fullContent) \o calls[i].chunk
    /\ Len(calls) = Len(CompleteFrames(wire))
    /\ \A i \in 1..Len(calls) : calls[i].chunk = wire[CompleteFrames(wire)[i]].content
    /\ calls # <<>> => fullContent = calls[Len(calls)].fullContent

\* C10 witness: two invocations with different deltas.
C10_Witness == Len(calls) = 2 /\ calls[1].chunk # calls[2].chunk /\ pc = "reading"

\* The frames of the wire w that stand alone on a completed line and whose
\* choices, if any, hold a delta.
Carried(w) == SelectSeq(CompleteFrames(w), LAMBDA k : w[k].choices # "empty")

WithModel(w) == SelectSeq(Carried(w), LAMBDA k : w[k].model # None)

WithUsage(w) == SelectSeq(Carried(w), LAMBDA k : w[k].usage # None)

\* The model id of the first frame of w that carries one.
FirstModel(w) == IF WithModel(w) = <<>> THEN None ELSE w[WithModel(w)[1]].model

\* The usage record of the last frame of w that carries one.
LastUsage(w) == IF WithUsage(w) = <<>> THEN None ELSE w[WithUsage(w)[Len(WithUsage(w))]].usage

\* A streaming completion returns its result.
StreamEnds == pc = "reading" /\ pc' = "idle" /\ downloadBtnShown'

\* C11 as claimed: the result of a streaming completion reports the first
\* model id a frame of the stream carried and the last usage record a frame
\* carried.
C11_FirstModelLastUsage ==
    [][StreamEnds => /\ processingInfo'.model = FirstModel(wire)
                     /\ processingInfo'.usage = LastUsage(wire)]_vars

\* The terminator has arrived on a line of its own.
DoneSeen(w) == \E k \in 1..(Len(w) - 1) : w[k] = Done /\ w[k + 1] = NL /\ (k = 1 \/ w[k - 1] = NL)

\* C12 as claimed: once the [DONE] line has arrived, a read of the same
\* stream invokes the observer no more and leaves the cumulative buffer,
\* the model id and the usage as they are.
C12_DoneEndsLoop ==
    [][(pc = "reading" /\ DoneSeen(wire) /\ pc' = "reading") => UNCHANGED <<calls, fullContent, model, usage>>]_vars

\* The line f arrives whole, after the lines w.
Arrives(f, w) == pc = "reading" /\ buffer = <<>> /\ wire = w /\ wire' = w \o <<f, NL>>

\* C13: a malformed line leaves the cumulative buffer, the model id, the
\* usage and the observer's log as they are and the completion running,
\* and a well-formed line that arrives after it is processed: its delta is
\* appended and observed, its model id and its usage are taken.
C13_MalformedSkipped ==
    [][/\ Arrives(Bad, wire) => (pc' = "reading" /\ lastError' = NoError /\ UNCHANGED <<calls, fullContent, model, usage>>)
       /\ \A f \in StreamFrames :
             (Arrives(f, wire) /\ Bad \in Range(wire) /\ f.kind = "data" /\ f.choices # "empty") =>
                 /\ fullContent' = fullContent \o f.content
                 /\ calls' = IF f.content = <<>> THEN calls
                              ELSE Append(calls, [chunk |-> f.content, fullContent |-> fullContent \o f.content])
                 /\ model' = IF f.model # None THEN f.model ELSE model
                 /\ usage' = IF f.usage # None THEN f.usage ELSE usage]_vars

\* C13 witness: a malformed line has been followed by a line with content,
\* a model id and a usage record, which have all been taken.
C13_Witness ==
    /\ pc = "reading"
    /\ Len(wire) >= 4
    /\ wire[1] = Bad
    /\ calls # <<>>
    /\ model = "m1"
    /\ usage = "u1"

\* C14 as claimed: the completion call gets as far as its fetch, and the
\* request carries the headers the job prepared: Content-Type always, and
\* Authorization: Bearer <token> exactly when a credential is typed in.
C14_PreparedHeadersUsed ==
    /\ lastError # WrapError(ReferenceError)
    /\ request # NoRequest =>
          /\ request.headers = headers
          /\ ContentTypeJson \in request.headers
          /\ (TrimText(apiTokenInput) # <<>>) <=> (Bearer(TrimText(apiTokenInput)) \in request.headers)

\* An endpoint that starts with a URL scheme, in whatever letter case.
HasScheme(url) == url # <<>> /\ url[1] \in {"http://", "https://", "HTTP://"}

\* The base URL the specification describes for the configured endpoint.
NormalizedBase(value) ==
    IF TrimText(value) = <<>> THEN DefaultUrl
    ELSE IF HasScheme(TrimText(value)) THEN TrimText(value)
    ELSE <<"https://">> \o TrimText(value)

\* C15 as claimed: the request goes to the configured endpoint followed by
\* /v1/chat/completions, the endpoint unchanged when it has a scheme, with
\* https:// in front when it has none, the loopback address when unset.
C15_BaseUrlNormalized ==
    request # NoRequest => request.url = CompletionsUrl(NormalizedBase(apiUrlInput))

\* The extraction has returned and the completion call is at its fetch.
Extracted == pc = "fetching"

\* The characters of t that are not white space, in order.
NonSpace(t) == SelectSeq(t, LAMBDA c : c \notin Space)

\* The text of the pages of doc, in page order.
RECURSIVE AllText(_)
AllText(doc) ==
    IF doc = <<>> THEN <<>> ELSE Join(doc[1].items) \o <<"\n">> \o AllText(Tail(doc))

\* C16: the transcript extractTextFromPDF returns holds the characters of
\* the pages in page order, no newline, no two white-space characters in a
\* row, and no white space at its start or its end.
C16_NormalizedTranscript ==
    (Extracted /\ ~isVision) =>
        LET t == extractedTextContent
        IN /\ NonSpace(t) = NonSpace(AllText(pdf))
           /\ \A k \in 1..Len(t) : t[k] # "\n"
           /\ \A k \in 1..(Len(t) - 1) : ~(t[k] \in Space /\ t[k + 1] \in Space)
           /\ t # <<>> => (t[1] \notin Space /\ t[Len(t)] \notin Space)

\* C16 witness: a two-page document with newlines and runs of white space
\* in its items has been extracted.
C16_Witness ==
    /\ Extracted
    /\ ~isVision
    /\ Len(pdf) = 2
    /\ extractedTextContent = <<"a", " ", "a", " ", "b">>

\* C17: convertPDFToImages returns one image for each page, the image at
\* index i being the rendering of page i.
C17_ImagesInPageOrder ==
    (Extracted /\ isVision) =>
        /\ Len(images) = Len(pdf)
        /\ \A i \in 1..Len(pdf) : images[i] = Image(i, pdf[i])

\* C17 witness: a document of two different pages has been rasterized.
C17_Witness ==
    /\ Extracted
    /\ isVision
    /\ Len(pdf) = 2
    /\ pdf[1] # pdf[2]
    /\ Len(images) = 2

\* C18: a completion request is sent only when every page has decoded;
\* while the extraction runs no transcript is returned, and when a page has
\* failed the job has ended with the extraction's error, no transcript, no
\* image and no request.
C18_NoPartialExtraction ==
    /\ request # NoRequest => \A i \in 1..Len(pdf) : pdf[i].decodes
    /\ pc = "extracting" => extractedTextContent = <<>>
    /\ (pc # "extracting" /\ \E i \in 1..Len(pdf) : ~pdf[i].decodes) =>
          /\ pc = "idle"
          /\ alertMsg = ExtractionError.message
          /\ request = NoRequest
          /\ extractedTextContent = <<>>
          /\ images = <<>>
          /\ text = <<>>

\* C18 witness: the second page of a document has failed after the first
\* one was done.
C18_Witness ==
    /\ pc = "idle"
    /\ Len(pdf) = 2
    /\ pdf[1].decodes
    /\ ~pdf[2].decodes
    /\ pageNo = 2
    /\ alertMsg = ExtractionError.message

\* The observer's invocations so far whose payload was not empty.
Rendered(log) == SelectSeq(log, LAMBDA call : HtmlContent(call.fullContent) # <<>>)

\* A job is in flight and none of its observer invocations has had a
\* payload to render.
NothingRendered == pc # "idle" /\ \A i \in 1..Len(calls) : HtmlContent(calls[i].fullContent) = <<>>

\* C19: the preview is written only by a step of a job in flight or by the
\* step that starts a job, and from the start of a job until its first
\* non-empty payload the preview is empty.
C19_PreviewOfActiveJob ==
    [][/\ shadowRoot' # shadowRoot => (pc # "idle" \/ pc' = "extracting")
       /\ shadowRoot' # <<>> => ~NothingRendered']_vars

\* C19 witness: a job is in flight with an empty preview after an earlier
\* job had rendered its result.
C19_Witness ==
    /\ pc = "fetching"
    /\ generatedHtml # <<>>
    /\ shadowRoot = <<>>

\* C20: while the stream is read the preview holds the payload of the most
\* recent invocation whose payload was not empty, nothing if there was
\* none; after a successful job it holds the html of the result.
C20_PreviewFollowsPayload ==
    /\ pc = "reading" =>
          shadowRoot = (IF Rendered(calls) = <<>> THEN <<>>
                        ELSE HtmlContent(Rendered(calls)[Len(Rendered(calls))].fullContent))
    /\ JobDone =>
          /\ shadowRoot = generatedHtml
          /\ shadowRoot = (IF isVision THEN HtmlFromImages(fullContent) ELSE HtmlFromText(fullContent))

\* C20 witness: the last chunk had no payload and the preview still holds
\* the payload of an earlier one.
C20_Witness ==
    /\ pc = "reading"
    /\ calls # <<>>
    /\ htmlContent = <<>>
    /\ shadowRoot # <<>>

\* C21: a job calls fetch at most once: the count of its calls goes up only
\* on the step on which the extraction ends and the completion function is
\* called, never on a step of a job that has called fetch, and never while
\* no job is in flight; it goes back to zero only when a new job starts.
C21_NoRetry ==
    [][/\ fetches' <= 1
       /\ fetches' > fetches => (pc = "extracting" /\ pc' = "fetching" /\ fetches = 0)
       /\ fetches' < fetches => (pc = "idle" /\ pc' = "extracting")
       /\ request' # request => (fetches' # fetches \/ (pc = "idle" /\ pc' = "extracting"))]_vars

\* C21 witness: a job has failed on the status of the response to its one
\* request, and no job is in flight.
C21_Witness == pc = "idle" /\ fetches = 1 /\ lastError = WrapError(ApiError) /\ jobAlerts = 1

\* The last job has ended without a result and without a stop click.
JobFailed == pc = "idle" /\ pdf # NoFile /\ ~downloadBtnShown /\ stoppedAt = -1

\* C22: whenever no job is in flight the trigger is enabled, the stop
\* button hidden and the controller released, and a job that has failed
\* without having been stopped has alerted exactly once.
C22_IdleAfterJob ==
    /\ pc = "idle" => (~processBtnDisabled /\ ~stopBtnShown /\ ~abortController)
    /\ JobFailed => jobAlerts = 1

\* C22 witness: a streaming job has failed in the middle of its stream.
C22_Witness ==
    /\ JobFailed
    /\ isStreaming
    /\ fullContent # <<>>
    /\ lastError = WrapError(NetworkError)
    /\ alertMsg = WrapError(NetworkError).message

\* C23: the download button is shown only when no job is in flight and the
\* last job has succeeded, generatedHtml then being the html of that job's
\* result; what a click on it offers is generatedHtml as it is, typed
\* text/html and named converted.html.
C23_ExportOfLastResult ==
    /\ downloadBtnShown =>
          /\ pc = "idle"
          /\ lastError = NoError
          /\ stoppedAt = -1
          /\ jobAlerts = 0
          /\ generatedHtml = (IF isVision THEN HtmlFromImages(fullContent) ELSE HtmlFromText(fullContent))
    /\ blob # NoBlob =>
          /\ downloadBtnShown
          /\ blob = [type |-> "text/html", name |-> "converted.html", content |-> generatedHtml]

\* C23 witness: the html of a result whose completion text held reasoning
\* as well has been exported.
C23_Witness ==
    /\ blob # NoBlob
    /\ blob.content = <<"p">>
    /\ Includes(fullContent, ThinkingOpen)

\* Everything but the history of the last event.
pageVars == <<pc, isVision, isStreaming, headersBound, processBtnDisabled, stopBtnShown, streamingContainerShown, previewContainerShown, downloadBtnShown, shadowRoot, streamingOutput, generatedHtml, abortController, aborted, hasReasoning, buffer, fullContent, wire, calls, htmlContent, alertMsg, lastError, stoppedAt, model, usage, processingInfo, apiUrlInput, apiTokenInput, apiUrl, headers, globalHeaders, request, pdf, pageNo, text, images, extractedTextContent, fetches, jobAlerts>>

\* No streaming completion is waiting for its response or for a read.
NotAwaitingStream == pc \in {"idle", "extracting"} \/ ~isStreaming

\* C25: a click on the stop button while no streaming completion is
\* waiting for the network finds no controller and changes nothing of the
\* page or of the job.
C25_StopWithoutStream ==
    [][(StopClick /\ NotAwaitingStream) => (stopIgnored' /\ UNCHANGED pageVars)]_vars

\* C25 witness: the stop button has just been clicked during a single-shot
\* completion, which is still waiting for its body.
C25_Witness == stopIgnored /\ pc = "json" /\ processBtnDisabled

\* The text of s between its first tag open and the first tag close after
\* it, or the end of s when no close follows.
SpanAfter(s, open, close) ==
    LET i == Least({k \in 1..Len(s) : s[k] = open})
        ends == {k \in (i + 1)..Len(s) : s[k] = close}
    IN SubSeq(s, i + 1, IF ends = {} THEN Len(s) ELSE Least(ends) - 1)

\* C24: when the buffer holds a <thinking> opening tag the excerpt is the
\* interior of its first <thinking> span, whether a <think> tag comes
\* before it, after it, inside it or not at all; the excerpt is the
\* interior of the first <think> span only when the buffer holds a <think>
\* opening tag and no <thinking> opening tag.
C24_ThinkingFirst ==
    ObserverRan =>
        /\ Includes(fullContent, ThinkingOpen) =>
              streamingOutput = SpanAfter(fullContent, ThinkingOpen, ThinkingClose)
        /\ (Includes(fullContent, ThinkOpen) /\ ~Includes(fullContent, ThinkingOpen)) =>
              streamingOutput = SpanAfter(fullContent, ThinkOpen, ThinkClose)

\* C24 witness: a <think> tag comes first, and the excerpt is the interior
\* of the terminated <thinking> span after it.
C24_Witness ==
    /\ ObserverRan
    /\ fullContent = <<ThinkOpen, ThinkingOpen, "p", ThinkingClose>>
    /\ streamingOutput = <<"p">>

\* The page as the observer finds it when the stream of a job starts.
FreshPage == [hasReasoning |-> FALSE, streamingOutput |-> <<>>, shadowRoot |-> <<>>, previewContainerShown |-> FALSE, htmlContent |-> <<>>]

\* What the read loop holds after a single read that delivers all of w.
OneRead(w) ==
    LET pieces == SplitLines(w, <<>>, <<>>)
        st == ProcessLines([fullContent |-> <<>>, page |-> FreshPage, calls |-> <<>>, model |-> None, usage |-> None],
                           SubSeq(pieces, 1, Len(pieces) - 1))
    IN [fullContent |-> st.fullContent, page |-> st.page, calls |-> st.calls, model |-> st.model, usage |-> st.usage, buffer |-> pieces[Len(pieces)]]

\* The state of the read loop and of the observer's page.
ReadLoop == [fullContent |-> fullContent, page |-> Observed, calls |-> calls, model |-> model, usage |-> usage, buffer |-> buffer]

\* C26: however the reads have cut the body delivered so far, the
\* observer's invocations, the cumulative buffer, the model id, the usage,
\* the page and the incomplete line carried over are what a single read of
\* the same body gives, and so is the result when the stream ends.
C26_ReadBoundaries ==
    [][/\ pc' = "reading" => ReadLoop' = OneRead(wire')
       /\ StreamEnds =>
             /\ generatedHtml' = (IF isVision THEN HtmlFromImages(OneRead(wire).fullContent) ELSE HtmlFromText(OneRead(wire).fullContent))
             /\ processingInfo' = [model |-> OneRead(wire).model, usage |-> OneRead(wire).usage]]_vars

\* C26 witness: a data line that came in two parts and a whole data line
\* after it have both been observed.
C26_Witness ==
    /\ pc = "reading"
    /\ wire = <<FrameStart(SplitFrame), FrameEnd(SplitFrame), NL, Data(<<ThinkingOpen>>), NL>>
    /\ Len(calls) = 2
    /\ fullContent = <<"p", ThinkingOpen>>
    /\ model = "m1"

\* The deltas of the content frames of w that stand alone on a line, the
\* last line included whether a newline ends it or the stream does.
RECURSIVE Contents(_)
Contents(lines) ==
    IF lines = <<>> THEN <<>> ELSE LineContent(Head(lines)) \o Contents(Tail(lines))

Delivered(w) == Contents(SplitLines(w, <<>>, <<>>))

\* C27 as claimed: when the stream ends the cumulative buffer holds the
\* delta of every content frame the stream delivered, the frame of a last
\* line without a newline included.
C27_NothingDropped == [][StreamEnds => fullContent' = Delivered(wire)]_vars

\* The HTML-extraction step of the observer removes a reasoning span of s.
Removes(s) == Len(WithoutReasoning(s, TRUE)) < Len(s)

\* C28 as claimed: on every buffer the observer has reduced, with tags in
\* whatever letter case, the latch is set exactly when the extraction step
\* removes a reasoning span, and an excerpt is shown only when it removes
\* one.
C28_DetectionAgreesWithRemoval ==
    ObserverRan =>
        /\ hasReasoning <=> Removes(fullContent)
        /\ streamingOutput # <<>> => Removes(fullContent)

====
